---- MODULE Spec2Model ----
(***************************************************************************)
(* Model of evalml's stacked-ensemble classification pipeline              *)
(* (evalml/pipelines/ensemble_classification_pipelines.py) and of the      *)
(* problem-type resolver (evalml/problem_types/utils.py).                  *)
(*                                                                         *)
(* Data frames are abstracted to their column names and their row index;   *)
(* a series to its row index and its values.  Probabilities themselves are *)
(* not modelled: a prediction row is identified by the sample it is for.   *)
(***************************************************************************)
EXTENDS Integers, Sequences, FiniteSets, TLC

(* ------------------------------ bounds --------------------------------- *)
MaxRows == 3
NumLabels == 3
MaxFolds == 2
NumPipelines == 2
MaxElems == 2

Labels == 0 .. (NumLabels - 1)

\* The names of the input pipelines: all different, or the last pipeline
\* named like the first.
PipelineName(i) == "p" \o ToString(i)
NameLists ==
  {[i \in 1 .. NumPipelines |-> PipelineName(i)],
   [i \in 1 .. NumPipelines |-> IF i = NumPipelines THEN PipelineName(1)
                                 ELSE PipelineName(i)]}

(* --------------------------- generic helpers --------------------------- *)
Range(s) == {s[i] : i \in DOMAIN s}

Min(S) == CHOOSE m \in S : \A o \in S : m <= o

RECURSIVE SortedSeq(_)
SortedSeq(S) == IF S = {} THEN <<>> ELSE <<Min(S)>> \o SortedSeq(S \ {Min(S)})

RECURSIVE Flatten(_)
Flatten(ss) == IF ss = <<>> THEN <<>> ELSE Head(ss) \o Flatten(Tail(ss))

RECURSIVE Sum(_)
Sum(s) == IF s = <<>> THEN 0 ELSE Head(s) + Sum(Tail(s))

\* A sequence given as a function, as the tuple of its elements.
List(s) == s \o <<>>

SeqsUpTo(S, n) == UNION {[1 .. k -> S] : k \in 0 .. n}

(* -------------------- evalml/problem_types/utils.py -------------------- *)
\* Member names of the ProblemTypes enum; ProblemTypes[name] looks up by name.
ProblemTypes == {"BINARY", "MULTICLASS", "REGRESSION"}

\* str.upper() on the strings the model passes in.
Upper(s) ==
  CASE s = "binary" -> "BINARY"
    [] s = "Binary" -> "BINARY"
    [] s = "BINARY" -> "BINARY"
    [] s = "multiclass" -> "MULTICLASS"
    [] s = "regression" -> "REGRESSION"
    [] s = "not_a_type" -> "NOT_A_TYPE"
    [] OTHER -> s

Strings == {"binary", "Binary", "BINARY", "multiclass", "regression", "not_a_type"}

\* A Python value handed to the resolver: an enum member, a str, some other
\* object (None, an int, ...), or a list of such values.
EnumValue(n) == [t |-> "enum", v |-> n, items |-> <<>>]
StrValue(s) == [t |-> "str", v |-> s, items |-> <<>>]
OtherValue(o) == [t |-> "other", v |-> o, items |-> <<>>]
ListValue(l) == [t |-> "list", v |-> "", items |-> l]
Elements == {EnumValue(n) : n \in ProblemTypes} \cup {StrValue(s) : s \in Strings}
              \cup {OtherValue("None")}

\* What a call returns or raises.
ReturnEnum(n) == [kind |-> "enum", enum |-> n, items |-> <<>>, name |-> ""]
ReturnList(l) == [kind |-> "list", enum |-> "", items |-> l, name |-> ""]
RaiseKeyError(s) == [kind |-> "KeyError", enum |-> "", items |-> <<>>, name |-> s]

RECURSIVE hpt_loop(_, _)
hpt_loop(problem_types, types) ==
  IF problem_types = <<>> THEN ReturnList(types)
  ELSE LET problem_type == Head(problem_types) IN
       IF problem_type.t = "enum"
         THEN hpt_loop(Tail(problem_types), Append(types, problem_type.v))
       ELSE IF problem_type.t = "str"
         THEN IF Upper(problem_type.v) \in ProblemTypes
                THEN hpt_loop(Tail(problem_types), Append(types, Upper(problem_type.v)))
                ELSE RaiseKeyError(problem_type.v)
       ELSE hpt_loop(Tail(problem_types), types)

handle_problem_types(problem_types) ==
  IF problem_types.t = "enum"
    THEN ReturnEnum(problem_types.v)
  ELSE hpt_loop(IF problem_types.t = "str" THEN <<problem_types>> ELSE problem_types.items,
                <<>>)

HptInputs == (Elements \ {OtherValue("None")})
               \cup {ListValue(l) : l \in SeqsUpTo(Elements, MaxElems)}

(* --------------------------- tables and series ------------------------- *)
\* A data frame: whether it is a pd.DataFrame at all, its column labels and
\* its row index.  A series: its row index and its values.
Table(cols, rows) == [isdf |-> TRUE, cols |-> List(cols), rows |-> List(rows)]
NotATable == [isdf |-> FALSE, cols |-> <<>>, rows |-> <<>>]
Series(index, values) == [index |-> List(index), values |-> List(values)]

\* y as the caller passes it: the first m labels, default RangeIndex.
MakeY(labels, m) == Series([i \in 1 .. m |-> i], [i \in 1 .. m |-> labels[i]])

\* series.ww.iloc[positions]
Iloc(s, positions) ==
  Series([k \in DOMAIN positions |-> s.index[positions[k]]],
         [k \in DOMAIN positions |-> s.values[positions[k]]])

nunique(y) == Cardinality(Range(y.values))

\* Column labels of b that a does not have, in b's order.
NewCols(a, b) == SelectSeq(b, LAMBDA c : c \notin Range(a))

\* pd.concat(tables): rows appended, columns the ordered union.
RECURSIVE pd_concat(_)
pd_concat(tables) ==
  IF Len(tables) = 1 THEN tables[1]
  ELSE LET front == pd_concat(SubSeq(tables, 1, Len(tables) - 1))
           back == tables[Len(tables)]
       IN Table(front.cols \o NewCols(front.cols, back.cols), front.rows \o back.rows)

\* ww.concat_columns(tables): columns appended, rows those of the (aligned) inputs.
concat_columns(tables) ==
  Table(Flatten([i \in DOMAIN tables |-> tables[i].cols]), tables[1].rows)

\* table.loc[index]: for every label of index the rows carrying it; KeyError
\* when a label is missing.
LocMissing(table, index) == \E k \in DOMAIN index : index[k] \notin Range(table.rows)
Loc(table, index) ==
  Table(table.cols,
        Flatten([k \in DOMAIN index |-> SelectSeq(table.rows, LAMBDA r : r = index[k])]))

(* ------------------------- collaborating pipelines --------------------- *)
\* An input pipeline or a clone of one: its name, whether it is fitted, and
\* the classes it was fitted on.
Pipeline(name, fitted, classes) == [name |-> name, fitted |-> fitted, classes |-> classes]

clone(pipeline) == Pipeline(pipeline.name, FALSE, {})

pipeline_fit(pipeline, y) == Pipeline(pipeline.name, TRUE, Range(y.values))

\* One probability column per class, one row per row of X.
predict_proba(pipeline, X_rows) == Table(SortedSeq(pipeline.classes), X_rows)

_all_input_pipelines_fitted(input_pipelines) ==
  \A i \in DOMAIN input_pipelines : input_pipelines[i].fitted

_fit_input_pipelines(input_pipelines, y) ==
  List([i \in DOMAIN input_pipelines |-> pipeline_fit(clone(input_pipelines[i]), y)])

(* --------------------------- data splitters ---------------------------- *)
\* KFold without shuffling: n_splits contiguous blocks, the first n % k one
\* row longer.
FoldSize(n, k, f) == (n \div k) + (IF f <= n % k THEN 1 ELSE 0)
FoldStart(n, k, f) == (f - 1) * (n \div k) + (IF f - 1 <= n % k THEN f - 1 ELSE n % k)
Block(n, k, f) == List([j \in 1 .. FoldSize(n, k, f) |-> FoldStart(n, k, f) + j])
Others(n, block) == SelectSeq([i \in 1 .. n |-> i], LAMBDA i : i \notin Range(block))
Reverse(s) == List([i \in DOMAIN s |-> s[Len(s) + 1 - i]])

Fold(train, valid) == [train |-> train, valid |-> valid]

Splitters == [kind : {"kfold"}, k : 2 .. MaxFolds]
               \cup [kind : {"shuffled", "repeated"}, k : {MaxFolds}]
               \cup {[kind |-> "holdout", k |-> 1]}

\* A splitter cannot make more folds than there are rows.
split_fails(data_splitter, n) == data_splitter.k > n

\* data_splitter.split(X, y) for n rows: k-fold blocks in order; the same
\* blocks drawn in another order; folds that all validate on every row; one
\* training/validation split.
split(data_splitter, n) ==
  LET k == data_splitter.k IN
  List(CASE data_splitter.kind = "kfold" ->
         [f \in 1 .. k |-> Fold(Others(n, Block(n, k, f)), Block(n, k, f))]
    [] data_splitter.kind = "shuffled" ->
         [f \in 1 .. k |-> Fold(Others(n, Block(n, k, k + 1 - f)),
                                Reverse(Block(n, k, k + 1 - f)))]
    [] data_splitter.kind = "repeated" ->
         [f \in 1 .. k |-> Fold(Others(n, <<f>>), [i \in 1 .. n |-> i])]
    [] data_splitter.kind = "holdout" ->
         <<Fold(Block(n, 2, 1), Block(n, 2, 2))>>)

NoSplitter == [kind |-> "None", k |-> 0]
make_data_splitter == [kind |-> "kfold", k |-> MaxFolds]

(* ------------- EnsembleClassificationPipeline._preds_processor --------- *)
ColName(col, pipeline_name) == "Col " \o ToString(col) \o " " \o pipeline_name \o ".x"

_preds_processor(preds, pipeline_name) ==
  IF ~preds.isdf THEN NotATable
  ELSE LET renamed == [i \in 1 .. Len(preds.cols) |-> i - 1]
           kept == IF Len(renamed) = 2 THEN Tail(renamed) ELSE renamed
       IN Table([i \in DOMAIN kept |-> ColName(kept[i], pipeline_name)], preds.rows)

(* ------------------ EnsembleClassificationPipeline.fit ----------------- *)
is_binary(problem_type) == problem_type = "binary"
is_multiclass(problem_type) == problem_type = "multiclass"

NoError == "ok"
BinaryCardinalityError == "ValueError: Binary pipelines require y to have 2 unique classes!"
MulticlassCardinalityError ==
  "ValueError: Multiclass pipelines require y to have 3 or more unique classes!"
PredsError == "ValueError: Preds must be in the form of a pd.Dataframe"
LocError == "KeyError"
SplitError == "ValueError: split"
UnfittedError == "ValueError: Input pipelines needs to be fitted before transform"

\* A check that lets a binary ensemble through with 3 or more classes.
cardinality_check_at_least_2(problem_type, y) ==
  IF is_binary(problem_type) /\ nunique(y) < 2 THEN BinaryCardinalityError
  ELSE IF is_multiclass(problem_type) /\ nunique(y) \in {1, 2} THEN MulticlassCardinalityError
  ELSE NoError

\* The class-cardinality check at the head of fit.
cardinality_check(problem_type, y) ==
  IF is_binary(problem_type) /\ nunique(y) /= 2 THEN BinaryCardinalityError
  ELSE IF is_multiclass(problem_type) /\ nunique(y) \in {1, 2} THEN MulticlassCardinalityError
  ELSE NoError

\* The branch that uses the precomputed cross-validation predictions.
precomputed_blocks(cv_valid_data) ==
  List([p \in DOMAIN cv_valid_data |->
          List([b \in DOMAIN cv_valid_data[p].preds |->
                  _preds_processor(cv_valid_data[p].preds[b], cv_valid_data[p].key)])])

precomputed_X(cv_valid_data) ==
  concat_columns([p \in DOMAIN cv_valid_data |-> pd_concat(precomputed_blocks(cv_valid_data)[p])])

\* The pipelines the fold loop fits: one clone per input pipeline, made
\* before the loop.  serial numbers the instances in creation order.
Instance(pipeline, serial) == [pl |-> pipeline, serial |-> serial]
pred_pls(input_pipelines) ==
  List([i \in DOMAIN input_pipelines |-> Instance(clone(input_pipelines[i]), i)])

\* A pass of the fold loop that collects the labels of the training rows.
fold_step_train_labels(y, fold, f, st) ==
  LET y_train == Iloc(y, fold.train)
      y_valid == Iloc(y, fold.valid)
      before == st.pls
      after == List([i \in DOMAIN before |->
                       Instance(pipeline_fit(before[i].pl, y_train), before[i].serial)])
      fold_X == List([i \in DOMAIN after |->
                        _preds_processor(predict_proba(after[i].pl, y_valid.index),
                                         after[i].pl.name)])
  IN [pls |-> after,
      X |-> Append(st.X, concat_columns(fold_X)),
      y |-> Append(st.y, y_train),
      log |-> st.log \o [i \in DOMAIN before |->
                           [serial |-> before[i].serial, fold |-> f,
                            was_fitted |-> before[i].pl.fitted]]]

\* One pass of the fold loop: st carries the instances, the blocks and the
\* labels collected so far, and the log of the fit calls made.
fold_step(y, fold, f, st) ==
  LET y_train == Iloc(y, fold.train)
      y_valid == Iloc(y, fold.valid)
      before == st.pls
      after == List([i \in DOMAIN before |->
                       Instance(pipeline_fit(before[i].pl, y_train), before[i].serial)])
      fold_X == List([i \in DOMAIN after |->
                        _preds_processor(predict_proba(after[i].pl, y_valid.index),
                                         after[i].pl.name)])
  IN [pls |-> after,
      X |-> Append(st.X, concat_columns(fold_X)),
      y |-> Append(st.y, y_valid),
      log |-> st.log \o [i \in DOMAIN before |->
                           [serial |-> before[i].serial, fold |-> f,
                            was_fitted |-> before[i].pl.fitted]]]

RECURSIVE fold_loop(_, _, _, _)
fold_loop(y, splits, f, st) ==
  IF f > Len(splits) THEN st
  ELSE fold_loop(y, splits, f + 1, fold_step(y, splits[f], f, st))

series_concat(ss) ==
  Series(Flatten([i \in DOMAIN ss |-> ss[i].index]), Flatten([i \in DOMAIN ss |-> ss[i].values]))

\* What one call did, kept for the properties: the operation, the number of
\* rows it was given and how it ended, whether it refitted the input pipelines, whether it called the
\* splitter and with what result, the fit calls of the fold loop, the number
\* of predict_proba calls made on input pipelines, and the table and labels
\* it produced (fit: what the metalearner was fitted on; transform: what it
\* returned).
Call(op, m, outcome, path, refit, split_called, splits, log, proba_calls, X, y) ==
  [op |-> op, m |-> m, outcome |-> outcome, path |-> path, refit |-> refit,
   split_called |-> split_called, splits |-> splits, log |-> log,
   proba_calls |-> proba_calls, X |-> X, y |-> y]

EmptyTable == Table(<<>>, <<>>)
EmptySeries == Series(<<>>, <<>>)
NoCall == Call("none", 0, NoError, "none", FALSE, FALSE, <<>>, <<>>, 0, EmptyTable, EmptySeries)

Graph(fitted, cols) == [fitted |-> fitted, cols |-> cols]

\* The ensemble's state after a call, with the record of the call.
Result(input_pipelines, component_graph, classes_, call) ==
  [input_pipelines |-> input_pipelines, component_graph |-> component_graph,
   classes_ |-> classes_, call |-> call]

\* fit after the class-cardinality check: lines 149-208.
fit_unchecked(self, y, data_splitter, force_retrain) ==
  LET input_pipelines == self.input_pipelines
      cv_valid_data == self.cv_valid_data
      component_graph == self.component_graph
      classes_ == self.classes_
      refit == ~_all_input_pipelines_fitted(input_pipelines) \/ force_retrain
      pipelines == IF refit THEN _fit_input_pipelines(input_pipelines, y)
                   ELSE input_pipelines
      Failed(outcome, path, split_called) ==
        Result(pipelines, component_graph, classes_,
               Call("fit", Len(y.index), outcome, path, refit, split_called, <<>>, <<>>, 0,
                    EmptyTable, EmptySeries))
      Fitted(path, split_called, splits, log, X, my) ==
        Result(pipelines, Graph(TRUE, X.cols), SortedSeq(Range(my.values)),
               Call("fit", Len(y.index), NoError, path, refit, split_called, splits, log,
                    0, X, my))
  IN
  IF cv_valid_data /= <<>> /\ ~force_retrain
    THEN LET blocks == precomputed_blocks(cv_valid_data)
             X == precomputed_X(cv_valid_data)
         IN IF \E p \in DOMAIN blocks : \E b \in DOMAIN blocks[p] : ~blocks[p][b].isdf
              THEN Failed(PredsError, "precomputed", FALSE)
            ELSE IF Len(X.rows) /= Len(y.index)
              THEN IF LocMissing(X, y.index)
                     THEN Failed(LocError, "precomputed", FALSE)
                     ELSE Fitted("precomputed", FALSE, <<>>, <<>>, Loc(X, y.index), y)
            ELSE Fitted("precomputed", FALSE, <<>>, <<>>, X, y)
  ELSE LET splitter == IF data_splitter = NoSplitter THEN make_data_splitter
                       ELSE data_splitter
       IN IF split_fails(splitter, Len(y.index))
            THEN Failed(SplitError, "cv", TRUE)
          ELSE LET splits == split(splitter, Len(y.index))
                   st == fold_loop(y, splits, 1,
                                   [pls |-> pred_pls(pipelines), X |-> <<>>,
                                    y |-> <<>>, log |-> <<>>])
               IN Fitted("cv", TRUE, splits, st.log, pd_concat(st.X), series_concat(st.y))

\* A fit that validates the classes only after the work is done.
fit_checked_late(self, y, data_splitter, force_retrain) ==
  LET error == cardinality_check(self.problem_type, y)
      done == fit_unchecked(self, y, data_splitter, force_retrain)
  IN IF error /= NoError
       THEN [done EXCEPT !.call.outcome = error]
     ELSE done

fit(self, y, data_splitter, force_retrain) ==
  LET error == cardinality_check(self.problem_type, y) IN
  IF error /= NoError
    THEN Result(self.input_pipelines, self.component_graph, self.classes_,
                Call("fit", Len(y.index), error, "none", FALSE, FALSE, <<>>, <<>>, 0,
                     EmptyTable, EmptySeries))
  ELSE fit_unchecked(self, y, data_splitter, force_retrain)

(* --------------- EnsembleClassificationPipeline.transform -------------- *)
\* A transform that goes ahead as soon as one input pipeline is fitted.
transform_any_fitted(self, X_rows) ==
  LET input_pipelines == self.input_pipelines
      component_graph == self.component_graph
      classes_ == self.classes_
  IN
  IF ~(\E i \in DOMAIN input_pipelines : input_pipelines[i].fitted)
    THEN Result(input_pipelines, component_graph, classes_,
                Call("transform", Len(X_rows), UnfittedError, "none", FALSE, FALSE, <<>>,
                     <<>>, 0, EmptyTable, EmptySeries))
  ELSE LET input_pipeline_preds ==
             List([i \in DOMAIN input_pipelines |->
                     _preds_processor(predict_proba(input_pipelines[i], X_rows),
                                      input_pipelines[i].name)])
       IN Result(input_pipelines, component_graph, classes_,
                 Call("transform", Len(X_rows), NoError, "none", FALSE, FALSE, <<>>, <<>>,
                      Len(input_pipelines), concat_columns(input_pipeline_preds),
                      EmptySeries))

transform(self, X_rows) ==
  LET input_pipelines == self.input_pipelines
      component_graph == self.component_graph
      classes_ == self.classes_
  IN
  IF ~_all_input_pipelines_fitted(input_pipelines)
    THEN Result(input_pipelines, component_graph, classes_,
                Call("transform", Len(X_rows), UnfittedError, "none", FALSE, FALSE, <<>>, <<>>, 0,
                     EmptyTable, EmptySeries))
  ELSE LET input_pipeline_preds ==
             List([i \in DOMAIN input_pipelines |->
                     _preds_processor(predict_proba(input_pipelines[i], X_rows),
                                      input_pipelines[i].name)])
       IN Result(input_pipelines, component_graph, classes_,
                 Call("transform", Len(X_rows), NoError, "none", FALSE, FALSE, <<>>, <<>>,
                      Len(input_pipelines), concat_columns(input_pipeline_preds),
                      EmptySeries))

(* ------------------------------- state --------------------------------- *)
VARIABLES
  problem_type,      \* the ensemble's problem type: "binary" or "multiclass"
  input_pipelines,   \* self.input_pipelines
  cv_valid_data,     \* self.cv_valid_data: <<>> (None) or one entry per key
  component_graph,   \* the metalearner: whether fitted, and on which columns
  classes_,          \* self._classes_ (<<>> until recorded)
  data_y,            \* the labelled rows the caller draws its training data from
  last,              \* the record of the last call
  hpt_in,            \* the argument of handle_problem_types
  hpt_out            \* its result

vars == <<problem_type, input_pipelines, cv_valid_data, component_graph, classes_,
          data_y, last, hpt_in, hpt_out>>

\* The ensemble object as the methods see it.
Self ==
  [problem_type |-> problem_type, input_pipelines |-> input_pipelines,
   cv_valid_data |-> cv_valid_data, component_graph |-> component_graph,
   classes_ |-> classes_]

\* Classes an input pipeline fitted by the caller beforehand was fitted on.
PriorClasses(pt) == IF is_binary(pt) THEN 0 .. 1 ELSE 0 .. 2

InputPipelineLists(pt) ==
  {[i \in 1 .. NumPipelines |->
      Pipeline(names[i], i <= nf, IF i <= nf THEN PriorClasses(pt) ELSE {})] :
     names \in NameLists, nf \in {0, 1, NumPipelines}}

\* The keys of a dict: each name once, in first-occurrence order.
RECURSIVE Keys(_)
Keys(names) ==
  IF names = <<>> THEN <<>>
  ELSE LET front == Keys(SubSeq(names, 1, Len(names) - 1))
       IN IF names[Len(names)] \in Range(front) THEN front
          ELSE Append(front, names[Len(names)])

\* Held-out predictions of an earlier cross-validation over MaxRows rows.
CvPreds(pt, isdf) ==
  List([f \in 1 .. MaxFolds |->
          IF isdf THEN Table(SortedSeq(PriorClasses(pt)), Block(MaxRows, MaxFolds, f))
          ELSE NotATable])
CvData(keys, pt, isdf) ==
  List([p \in DOMAIN keys |-> [key |-> keys[p], preds |-> CvPreds(pt, isdf)]])

CvOptions(pt, pipelines) ==
  LET keys == Keys([i \in DOMAIN pipelines |-> pipelines[i].name])
  IN {<<>>, CvData(keys, pt, TRUE), CvData(Reverse(keys), pt, TRUE), CvData(keys, pt, FALSE)}

\* The labelled rows: MaxRows labels, the classes numbered in order of first
\* appearance.
Max(S) == CHOOSE m \in S : \A o \in S : m >= o
Datasets ==
  {y \in [1 .. MaxRows -> Labels] :
     \A i \in 1 .. MaxRows :
       y[i] <= (IF i = 1 THEN 0 ELSE Max({y[j] : j \in 1 .. (i - 1)}) + 1)}

\* No call made yet.
HptIdle == [kind |-> "pending", enum |-> "", items |-> <<>>, name |-> ""]

Init ==
  /\ problem_type \in {"binary", "multiclass"}
  /\ input_pipelines \in InputPipelineLists(problem_type)
  /\ cv_valid_data \in CvOptions(problem_type, input_pipelines)
  /\ component_graph = Graph(FALSE, <<>>)
  /\ classes_ = <<>>
  /\ data_y \in Datasets
  /\ last = NoCall
  /\ hpt_in = ListValue(<<>>)
  /\ hpt_out = HptIdle

\* The numbers of rows the caller passes: none, all but the last, all.
RowCounts == {0, MaxRows - 1, MaxRows}

\* ensemble.fit(X, y, data_splitter, force_retrain) on the first m rows.
Fit ==
  \E m \in RowCounts, data_splitter \in Splitters \cup {NoSplitter},
     force_retrain \in BOOLEAN :
    \E result \in {fit(Self, MakeY(data_y, m), data_splitter, force_retrain)} :
       /\ input_pipelines' = result.input_pipelines
       /\ component_graph' = result.component_graph
       /\ classes_' = result.classes_
       /\ last' = result.call
       /\ UNCHANGED <<problem_type, cv_valid_data, data_y, hpt_in, hpt_out>>

\* ensemble.transform(X) for an X of m rows.
Transform ==
  \E m \in RowCounts :
    \E result \in {transform(Self, [i \in 1 .. m |-> i])} :
       /\ input_pipelines' = result.input_pipelines
       /\ component_graph' = result.component_graph
       /\ classes_' = result.classes_
       /\ last' = result.call
       /\ UNCHANGED <<problem_type, cv_valid_data, data_y, hpt_in, hpt_out>>

Next == Fit \/ Transform

Spec == Init /\ [][Next]_vars

(* ---------- ensembles built from precomputed held-out predictions ------- *)
\* The ensembles of Init whose input pipelines are already fitted and named
\* differently, and that come with the pipelines' held-out predictions.
PrecomputedInit ==
  /\ Init
  /\ cv_valid_data /= <<>>
  /\ _all_input_pipelines_fitted(input_pipelines)
  /\ \A i, j \in DOMAIN input_pipelines :
        input_pipelines[i].name = input_pipelines[j].name => i = j

\* ensemble.fit(X, y) with the default data_splitter and force_retrain.
FitDefaults ==
  \E m \in RowCounts :
    \E result \in {fit(Self, MakeY(data_y, m), NoSplitter, FALSE)} :
       /\ input_pipelines' = result.input_pipelines
       /\ component_graph' = result.component_graph
       /\ classes_' = result.classes_
       /\ last' = result.call
       /\ UNCHANGED <<problem_type, cv_valid_data, data_y, hpt_in, hpt_out>>

PrecomputedNext == FitDefaults \/ Transform

PrecomputedSpec == PrecomputedInit /\ [][PrecomputedNext]_vars

(* --------------------- the resolver as a state machine ------------------ *)
HptInit ==
  /\ problem_type = "binary"
  /\ input_pipelines = <<>>
  /\ cv_valid_data = <<>>
  /\ component_graph = Graph(FALSE, <<>>)
  /\ classes_ = <<>>
  /\ data_y = <<>>
  /\ last = NoCall
  /\ hpt_in \in HptInputs
  /\ hpt_out = HptIdle

HandleProblemTypes ==
  /\ hpt_out' = handle_problem_types(hpt_in)
  /\ UNCHANGED <<hpt_in, problem_type, input_pipelines, cv_valid_data, component_graph,
                 classes_, data_y, last>>

HptNext == HandleProblemTypes

HptSpec == HptInit /\ [][HptNext]_vars

(* ------------------------------ properties ----------------------------- *)
CardinalityErrors == {BinaryCardinalityError, MulticlassCardinalityError}

\* The y the last fit call was given.
LastY == MakeY(data_y, last.m)

\* C1: a multiclass ensemble's fit fails with the class-cardinality error for
\* every y with fewer than 3 distinct labels (0, 1 or 2), and does not fail
\* the cardinality check for any y with 3 or more.
C1_MulticlassCardinality ==
  (last.op = "fit" /\ is_multiclass(problem_type)) =>
    ((nunique(LastY) < 3) <=> (last.outcome \in CardinalityErrors))

\* C2: a binary ensemble's fit passes the cardinality check if and only if y
\* has exactly 2 distinct labels; with 0, 1, 3 or more it fails with the
\* class-cardinality error.
C2_BinaryCardinality ==
  (last.op = "fit" /\ is_binary(problem_type)) =>
    /\ (nunique(LastY) = 2) => (last.outcome \notin CardinalityErrors)
    /\ (nunique(LastY) /= 2) => (last.outcome = BinaryCardinalityError)

C2_Witness ==
  /\ last.op = "fit" /\ is_binary(problem_type)
  /\ nunique(LastY) >= 3
  /\ last.outcome = BinaryCardinalityError

\* C9: a fit that fails with the class-cardinality error changes nothing: no
\* input pipeline is fitted, the splitter is not called, no clone is fitted,
\* the metalearner is not fitted and the recorded classes stay as they were.
C9_CardinalityErrorAborts ==
  [][(last'.op = "fit" /\ last'.outcome \in CardinalityErrors) =>
       /\ input_pipelines' = input_pipelines
       /\ component_graph' = component_graph
       /\ classes_' = classes_
       /\ ~last'.refit
       /\ ~last'.split_called
       /\ last'.log = <<>>]_vars

C9_Witness ==
  /\ last.op = "fit" /\ last.outcome \in CardinalityErrors
  /\ component_graph.fitted
  /\ classes_ /= <<>>

\* C3: handle_problem_types of a single string naming a problem type, in any
\* letter case, returns the canonical enum value itself, the same result as
\* when that enum value is passed in directly.
C3_SingleStringGivesEnum ==
  (hpt_out.kind /= "pending" /\ hpt_in.t = "str" /\ Upper(hpt_in.v) \in ProblemTypes) =>
    hpt_out = ReturnEnum(Upper(hpt_in.v))

\* The canonical enum value of a list element, "" when it has none.
Canonical(e) ==
  IF e.t = "enum" THEN e.v
  ELSE IF e.t = "str" /\ Upper(e.v) \in ProblemTypes THEN Upper(e.v)
  ELSE ""

\* C4: handle_problem_types of a sequence returns a sequence of the same
\* length whose i-th element is the canonical enum value of the i-th input
\* element; no element is dropped, and an element with no canonical enum
\* value makes the call fail with a lookup error naming it.
C4_SequenceElementwise ==
  (hpt_out.kind /= "pending" /\ hpt_in.t = "list") =>
    LET bad == {i \in DOMAIN hpt_in.items : Canonical(hpt_in.items[i]) = ""} IN
    IF bad = {}
      THEN hpt_out = ReturnList([i \in DOMAIN hpt_in.items |-> Canonical(hpt_in.items[i])])
    ELSE /\ hpt_out.kind = "KeyError"
         /\ hpt_out.name = hpt_in.items[Min(bad)].v

\* No label occurs twice in s.
NoDuplicates(s) == \A i, j \in DOMAIN s : s[i] = s[j] => i = j

\* The names _preds_processor is to give the columns of a K-column table.
ExpectedCols(K, pipeline_name) ==
  IF K = 2 THEN <<ColName(1, pipeline_name)>>
  ELSE [j \in 1 .. K |-> ColName(j - 1, pipeline_name)]

\* C5: _preds_processor gives a 2-column table exactly 1 column and a
\* K-column table (K > 2) exactly K columns, named by column position and
\* pipeline name, so that no two columns of the concatenation over the input
\* pipelines of an ensemble have the same name.
C5_ReshapedColumnsUnique ==
  (last.op = "transform" /\ last.outcome = NoError) =>
    /\ \A i \in DOMAIN input_pipelines :
         LET K == Cardinality(input_pipelines[i].classes)
             block == _preds_processor(predict_proba(input_pipelines[i], <<>>),
                                       input_pipelines[i].name)
         IN /\ (K = 2) => Len(block.cols) = 1
            /\ (K > 2) => Len(block.cols) = K
    /\ NoDuplicates(last.X.cols)

\* C6: in the cross-validation path every pipeline instance fitted on a
\* fold's training rows is a fresh unfitted clone, fitted exactly once.
C6_FreshClonePerFold ==
  (last.op = "fit" /\ last.outcome = NoError /\ last.path = "cv") =>
    /\ \A e \in DOMAIN last.log : ~last.log[e].was_fitted
    /\ \A e, g \in DOMAIN last.log :
         last.log[e].serial = last.log[g].serial => e = g

\* C7: transform called while not all input pipelines are fitted fails with
\* the unfitted-state error before any predict_proba call; once all are
\* fitted it returns the reshaped blocks of the input pipelines, concatenated
\* in input-pipeline order.
C7_TransformNeedsFittedInputs ==
  (last.op = "transform") =>
    IF ~(\A i \in DOMAIN input_pipelines : input_pipelines[i].fitted)
      THEN last.outcome = UnfittedError /\ last.proba_calls = 0
    ELSE /\ last.outcome = NoError
         /\ last.X.cols =
              Flatten([i \in DOMAIN input_pipelines |->
                         ExpectedCols(Cardinality(input_pipelines[i].classes),
                                      input_pipelines[i].name)])
         /\ last.X.rows = [i \in 1 .. last.m |-> i]

C7_Witness ==
  /\ last.op = "transform" /\ last.outcome = UnfittedError
  /\ \E i \in DOMAIN input_pipelines : input_pipelines[i].fitted
  /\ last.m > 0

\* The validation rows of the folds, in fold order.
ValidationSlots(splits) == Flatten([f \in DOMAIN splits |-> splits[f].valid])

\* C8: in the cross-validation path the metalearner's training matrix has one
\* row per validation slot of every fold (the number of samples when the
\* folds partition the rows), rows and labels are in fold order, and the
\* label at each row is that of the sample whose prediction is in the row.
C8_OneRowPerValidationSlot ==
  (last.op = "fit" /\ last.outcome = NoError /\ last.path = "cv") =>
    /\ Len(last.X.rows) = Sum([f \in DOMAIN last.splits |-> Len(last.splits[f].valid)])
    /\ last.X.rows = ValidationSlots(last.splits)
    /\ last.y.index = last.X.rows
    /\ Len(last.y.values) = Len(last.X.rows)
    /\ \A k \in DOMAIN last.X.rows : last.y.values[k] = data_y[last.X.rows[k]]
    /\ (NoDuplicates(ValidationSlots(last.splits))
          /\ Range(ValidationSlots(last.splits)) = 1 .. last.m)
         => Len(last.X.rows) = last.m

C8_Witness ==
  /\ last.op = "fit" /\ last.outcome = NoError /\ last.path = "cv"
  /\ Len(last.splits) >= 2
  /\ last.X.rows /= [i \in 1 .. Len(last.X.rows) |-> i]
  /\ Cardinality(Range(last.y.values)) >= 2

\* C10: after a successful fit the columns the metalearner was trained on are
\* the columns transform produces, same names in the same order, in the
\* cross-validation path and in the precomputed cv_valid_data path.
C10_TrainingColumnsMatchTransform ==
  (last.op = "transform" /\ last.outcome = NoError /\ component_graph.fitted) =>
    last.X.cols = component_graph.cols

====
